---- MODULE Spec2Model ----
(***************************************************************************)
(* Model of client/src/App.js: the simulated content store (mockIpfs), the *)
(* simulated ledger contract (createMockContract), the content-store       *)
(* resolver (setupIPFS / initializeIPFS) and the ledger resolver           *)
(* (getContractInstance) run by App's mount effect.                        *)
(*                                                                         *)
(* JavaScript strings that the code computes with (concatenation,          *)
(* substring, TextEncoder) are sequences of UTF-16 code units (numbers);   *)
(* strings the code only passes around are TLA+ strings.                   *)
(***************************************************************************)
EXTENDS Integers, Sequences, FiniteSets, TLC

VARIABLES
    now,        \* the clock, in milliseconds
    addLog,     \* results of the add() calls made so far, in call order
    catLog,     \* set of (hash, content) pairs returned by cat() so far
    promiEvent, \* the object returned by send() (createMockPromiEvent)
    timers,     \* pending setTimeout callbacks of that object
    history,    \* calls made on that object and what they delivered, in order
    mounted,    \* App's mount effect (useEffect, []) has run
    networks,   \* MediChain.networks, the deployment table
    mediChain,  \* useState(null): the ledger handle
    ipfs,       \* useState(mockIpfs): the content-store handle
    ledger,     \* the activation of getContractInstance
    store,      \* the activation of initializeIPFS / setupIPFS
    mediChainWrites, \* the arguments of the setMediChain calls, in order
    ipfsWrites,      \* the arguments of the setIpfs calls, in order
    uploads,    \* ipfs.add calls made by routed views through the handle
    account,    \* useState(''): the connected account
    token,      \* useState(''): the authorization token
    wallet,     \* connectWallet calls and their pending account requests
    views,      \* the handles routed views were rendered with, in order
    readLog,    \* results of simulated read calls made so far
    sendLog,    \* results of simulated write calls made so far, in order
    pendingSends \* awaited sends whose 200 ms timer has not fired, in order

storeVars == <<addLog, catLog>>
writeVars == <<promiEvent, timers, history>>
appVars == <<mounted, networks, mediChain, ipfs, ledger, store,
             mediChainWrites, ipfsWrites, uploads>>
sessionVars == <<account, token, wallet, views>>
callVars == <<readLog, sendLog, pendingSends>>
vars == <<now, storeVars, writeVars, appVars, sessionVars, callVars>>

(***************************************************************************)
(* Bounds of the model.                                                    *)
(***************************************************************************)
MaxAdds == 2
MaxCats == 3
MaxCalls == 3
MaxWriteTime == 300
MaxUploads == 1
TickMs == 1000
MaxTime == 5000
MaxViews == 2
MaxReads == 2
MaxSends == 2
MaxConnects == 2

(***************************************************************************)
(* String helpers (JavaScript semantics).                                  *)
(***************************************************************************)
Min(a, b) == IF a <= b THEN a ELSE b
Max(a, b) == IF a >= b THEN a ELSE b

\* String.prototype.substring(start, end) on a sequence of code units:
\* indices are clamped to [0, length] and swapped when start > end.
Substring(s, start, end) ==
    LET a  == Min(Max(start, 0), Len(s))
        b  == Min(Max(end, 0), Len(s))
        lo == Min(a, b)
        hi == Max(a, b)
    IN  SubSeq(s, lo + 1, hi)

\* Number.prototype.toString(36) of a Math.random() value 0 <= r < 1.  The
\* value is given by its base-36 fraction digits (as code units, no trailing
\* zero digit); the empty digit string is the value 0, printed "0"; any other
\* value is printed "0." followed by its digits.
ToString36(digits) ==
    IF digits = <<>> THEN <<48>> ELSE <<48, 46>> \o digits

\* The values Math.random() is taken to return: 0, 0.a, 0.z, 0.az and
\* 0.aaaaaaaaaa7 (the double nearest to 10/35).  A double prints with at
\* most about 14 base-36 fraction digits, so substring(2, 48) never cuts a
\* draw short.
RandomDraws ==
    { <<>>, <<97>>, <<122>>, <<97, 122>>,
      <<97, 97, 97, 97, 97, 97, 97, 97, 97, 97, 55>> }

\* 'Qm'
QmPrefix == <<81, 109>>

\* 'Mock file content for hash: '
MockContentPrefix ==
    <<77, 111, 99, 107, 32, 102, 105, 108, 101, 32, 99, 111, 110, 116, 101,
      110, 116, 32, 102, 111, 114, 32, 104, 97, 115, 104, 58, 32>>

\* TextEncoder.encode: UTF-8 bytes of a string of code units below 0x800
\* (one byte below 0x80, two bytes otherwise).
RECURSIVE Utf8Encode(_)
Utf8Encode(s) ==
    IF s = <<>> THEN <<>>
    ELSE LET c == Head(s)
             bytes == IF c < 128 THEN <<c>>
                      ELSE <<192 + (c \div 64), 128 + (c % 64)>>
         IN  bytes \o Utf8Encode(Tail(s))

(***************************************************************************)
(* mockIpfs (App.js 14-25).                                                *)
(***************************************************************************)
\* mockIpfs.add(content) given the value r returned by Math.random():
\* { path: 'Qm' + r.toString(36).substring(2, 48) }.  The content is unused.
MockIpfsAdd(content, r) ==
    [path |-> QmPrefix \o Substring(ToString36(r), 2, 48)]

\* A cat that serves what add() stored under the hash, when there is any.
MockIpfsCat_ServesStored(hash, log) ==
    IF \E i \in 1..Len(log) : log[i].path = hash
    THEN Utf8Encode((CHOOSE e \in {log[i] : i \in 1..Len(log)} : e.path = hash).content)
    ELSE Utf8Encode(MockContentPrefix \o hash)

\* mockIpfs.cat(hash): the UTF-8 bytes of 'Mock file content for hash: ' + hash.
\* The second parameter is the log of add() calls, which the code never reads.
MockIpfsCat(hash, log) ==
    Utf8Encode(MockContentPrefix \o hash)

\* Contents handed to add(): strings of code units.
Contents == { <<>>, <<104, 105>> }

\* Identifiers handed to cat() besides the ones add() returned: 'Qm', 'QmX',
\* the empty string and a non-ASCII identifier ('Qm' + U+00E9).
ForeignHashes == { <<81, 109>>, <<81, 109, 88>>, <<>>, <<81, 109, 233>> }

StoredPaths == { addLog[i].path : i \in 1..Len(addLog) }

StoreInit ==
    /\ addLog = <<>>
    /\ catLog = {}

\* A caller awaits mockIpfs.add(content).
Add(content, r) ==
    /\ Len(addLog) < MaxAdds
    /\ addLog' = Append(addLog, [by |-> "mock", content |-> content,
                                 path |-> MockIpfsAdd(content, r).path])
    /\ UNCHANGED <<catLog, now, writeVars, appVars, sessionVars, callVars>>

\* A caller awaits mockIpfs.cat(hash).
Cat(hash) ==
    /\ Cardinality(catLog) < MaxCats
    /\ catLog' = catLog \cup
          {[hash |-> hash, content |-> MockIpfsCat(hash, addLog),
            stored |-> hash \in StoredPaths]}
    /\ UNCHANGED <<addLog, now, writeVars, appVars, sessionVars, callVars>>

StoreNext ==
    \/ \E content \in Contents, r \in RandomDraws : Add(content, r)
    \/ \E hash \in ForeignHashes \cup StoredPaths : Cat(hash)

(***************************************************************************)
(* createMockContract: the write operations (App.js 28-116).               *)
(***************************************************************************)
WriteOps ==
    { "register", "permitAccess", "buyPolicy", "revokeAccess",
      "insuranceClaimRequest", "createPolicy", "approveClaimsByInsurer",
      "rejectClaimsByInsurer" }

\* The result object each write operation hands to createMockPromiEvent.
MockWriteResult(op) ==
    [transactionHash |->
        CASE op = "register"               -> "0xmock123"
          [] op = "permitAccess"           -> "0xmock456"
          [] op = "buyPolicy"              -> "0xmock789"
          [] op = "revokeAccess"           -> "0xmockABC"
          [] op = "insuranceClaimRequest"  -> "0xmockDEF"
          [] op = "createPolicy"           -> "0xmockGHI"
          [] op = "approveClaimsByInsurer" -> "0xmockJKL"
          [] op = "rejectClaimsByInsurer"  -> "0xmockMNO"]

\* Delays of the two setTimeout calls of createMockPromiEvent.
HashDelay == 100
ConfirmDelay == 200

\* Event names a caller subscribes to with on().
EventNames == { "transactionHash", "error", "receipt" }

\* Arguments of methods.<op>(...args).send(options): all ignored by the mock.
WriteArgs == { "none", "from-account" }

\* Before send() there is no PromiEvent.
NoEvent == [op |-> "none", result |-> [transactionHash |-> ""]]

\* createMockPromiEvent(result): the object closes over result and nothing
\* else; objects of different send() calls share no state, so the model
\* follows one of them.
createMockPromiEvent(op, result) == [op |-> op, result |-> result]

\* A call made on the PromiEvent, as an entry of history.
CallEntry(method, name) ==
    [kind |-> "call", method |-> method, name |-> name, call |-> 0, arg |-> ""]

\* A timer that invokes the callback without an argument.
CallbackEntry_NoArgument(c, arg) ==
    [kind |-> "callback", method |-> history[c].method, name |-> history[c].name,
     call |-> c, arg |-> ""]

\* The callback passed in call number c is invoked with arg.
CallbackEntry(c, arg) ==
    [kind |-> "callback", method |-> history[c].method, name |-> history[c].name,
     call |-> c, arg |-> arg]

\* The promise returned by call number c (a then or a catch) is fulfilled
\* with a Confirmation whose transactionHash is arg.
PromiseEntry(method, c, arg) ==
    [kind |-> "promise", method |-> method, name |-> "-", call |-> c, arg |-> arg]

\* An on() that schedules the callback whatever the event name.
MockEventOn_AnyEvent(name, c) ==
    {[call |-> c, delay |-> HashDelay, due |-> now + HashDelay,
      arg |-> promiEvent.result.transactionHash]}

\* mockEvent.on(event, callback), made as call number c: the timers it sets.
MockEventOn(name, c) ==
    IF name = "transactionHash"
    THEN {[call |-> c, delay |-> HashDelay, due |-> now + HashDelay,
           arg |-> promiEvent.result.transactionHash]}
    ELSE {}

\* mockEvent.then(resolve), made as call number c: the timer it sets; the
\* promise it returns is Promise.resolve(result), fulfilled at once.
MockEventThen(c) ==
    [timers  |-> {[call |-> c, delay |-> ConfirmDelay, due |-> now + ConfirmDelay,
                   arg |-> promiEvent.result.transactionHash]},
     promise |-> <<PromiseEntry("then", c, promiEvent.result.transactionHash)>>]

\* mockEvent.catch(reject): sets no timer; returns Promise.resolve(result).
MockEventCatch(c) ==
    [timers  |-> {},
     promise |-> <<PromiseEntry("catch", c, promiEvent.result.transactionHash)>>]

NumCalls == Cardinality({i \in 1..Len(history) : history[i].kind = "call"})

WriteInit ==
    /\ now = 0
    /\ promiEvent = NoEvent
    /\ timers = {}
    /\ history = <<>>

\* methods.<op>(args).send(): a new PromiEvent over the operation's result.
Send(op, args) ==
    /\ promiEvent = NoEvent
    /\ promiEvent' = createMockPromiEvent(op, MockWriteResult(op))
    /\ UNCHANGED <<now, timers, history, storeVars, appVars,
                   sessionVars, callVars>>

On(name) ==
    /\ promiEvent # NoEvent
    /\ NumCalls < MaxCalls
    /\ history' = Append(history, CallEntry("on", name))
    /\ timers' = timers \cup MockEventOn(name, Len(history) + 1)
    /\ UNCHANGED <<now, promiEvent, storeVars, appVars, sessionVars, callVars>>

Then ==
    /\ promiEvent # NoEvent
    /\ NumCalls < MaxCalls
    /\ LET r == MockEventThen(Len(history) + 1)
       IN  /\ history' = Append(history, CallEntry("then", "-")) \o r.promise
           /\ timers' = timers \cup r.timers
    /\ UNCHANGED <<now, promiEvent, storeVars, appVars, sessionVars, callVars>>

Catch ==
    /\ promiEvent # NoEvent
    /\ NumCalls < MaxCalls
    /\ LET r == MockEventCatch(Len(history) + 1)
       IN  /\ history' = Append(history, CallEntry("catch", "-")) \o r.promise
           /\ timers' = timers \cup r.timers
    /\ UNCHANGED <<now, promiEvent, storeVars, appVars, sessionVars, callVars>>

\* A timer may run once it is due and every timer set earlier with a delay
\* no longer than its own has run (the timer ordering of the HTML standard).
CanFire(t) ==
    /\ t.due <= now
    /\ \A u \in timers : (u.call < t.call /\ u.delay <= t.delay) => u = t

FireTimer(t) ==
    /\ CanFire(t)
    /\ timers' = timers \ {t}
    /\ history' = Append(history, CallbackEntry(t.call, t.arg))
    /\ UNCHANGED <<now, promiEvent, storeVars, appVars, sessionVars, callVars>>

\* How long a caller may wait between two calls (milliseconds).
Waits == { 50, 100 }

\* The caller waits d milliseconds, measured from send(); time never passes
\* a pending timer, which runs when it is due.
Wait(d) ==
    /\ promiEvent # NoEvent
    /\ now < MaxWriteTime
    /\ \A t \in timers : t.due > now
    /\ now' = IF \E t \in timers : t.due < now + d
              THEN CHOOSE due \in {t.due : t \in timers} :
                       \A t \in timers : due <= t.due
              ELSE now + d
    /\ UNCHANGED <<promiEvent, timers, history, storeVars, appVars,
                   sessionVars, callVars>>

WriteNext ==
    \/ \E op \in WriteOps, args \in WriteArgs : Send(op, args)
    \/ \E name \in EventNames : On(name)
    \/ Then
    \/ Catch
    \/ \E t \in timers : FireTimer(t)
    \/ \E d \in Waits : Wait(d)

(***************************************************************************)
(* The deployment table and the handles (App.js 4, 112-114, 142-143).      *)
(***************************************************************************)
\* The sentinel address of line 167.
Sentinel == "0x9876543210987654321098765432109876543210"

\* Contract addresses recorded in MediChain.networks.
Addresses == { Sentinel, "0xA11CE", "0xB0B" }

\* MediChain.networks[id] of a network with no entry is undefined.
NoEntry == [present |-> FALSE, address |-> ""]
Entry(a) == [present |-> TRUE, address |-> a]

\* Network identities that may have an entry, and the identities a provider
\* may report (1337 never has an entry).
TableIds == { 1, 5777 }
ProviderIds == { 1, 5777, 1337 }

\* The deployment tables: every assignment of an address or of no entry to
\* the two network identities, and an artifact without a networks object.
Tables ==
    { [defined |-> TRUE, entries |-> t] :
        t \in [TableIds -> {NoEntry} \cup {Entry(a) : a \in Addresses}] }
    \cup { [defined |-> FALSE, entries |-> [i \in TableIds |-> NoEntry]] }

\* useState(null)
NullHandle == [kind |-> "null", address |-> ""]

\* new web3.eth.Contract(MediChain.abi, address)
RealContract(address) == [kind |-> "real", address |-> address]

\* createMockContract(web3): the simulated contract; web3 is unused.
createMockContract(web3) == [kind |-> "mock", address |-> "0xMockContractAddress"]

\* The simulated store object, and the options setupIPFS passes to create().
mockIpfs == [kind |-> "mock", url |-> "", timeout |-> 0]
IpfsTimeout == 3000
IpfsOptions_NoTimeout == [url |-> "http://127.0.0.1:5001/api/v0", timeout |-> 0]
IpfsOptions == [url |-> "http://127.0.0.1:5001/api/v0", timeout |-> IpfsTimeout]

\* create(options): a client of the endpoint.
RealStore(options) == [kind |-> "real", url |-> options.url, timeout |-> options.timeout]

(***************************************************************************)
(* getContractInstance (App.js 160-194).  A frame records where the call   *)
(* stands; each operator below runs the code from one suspension point to  *)
(* the next and yields the new frame and the setMediChain calls made.      *)
(***************************************************************************)
\* What a failing call throws or rejects with: an Error object, or one of the
\* two values that have no properties.
Thrown == { "Error", "undefined", "null" }

\* error.message can be read: on undefined and on null the read itself throws
\* a TypeError.
HasMessage(error) == error = "Error"

\* Outcomes of a call that may fail.
Outcomes == { "none" } \cup Thrown

\* new Web3(window.ethereum || Web3.givenProvider || 'http://localhost:7545')
\* (line 162): it succeeds or it throws.  url tells what the constructor
\* does with the URL string 'http://localhost:7545' that line 190 gives it:
\* TRUE when it accepts it, FALSE when it throws an Error for it.  The two
\* are independent: with a wallet present line 162 passes the provider
\* object, not the URL.
Web3Built == [ok |-> TRUE, error |-> "none", url |-> TRUE]
Web3Outcomes ==
    { [ok |-> TRUE, error |-> "none", url |-> u] : u \in BOOLEAN }
    \cup { [ok |-> FALSE, error |-> e, url |-> u] : e \in Thrown, u \in BOOLEAN }

\* Settlements of web3.eth.net.getId().
GetIdOutcomes ==
    { [ok |-> TRUE, id |-> i, error |-> "none"] : i \in ProviderIds }
    \cup { [ok |-> FALSE, id |-> 0, error |-> e] : e \in Thrown }

\* urlOk: whether the Web3 constructor of this page accepts the URL string
\* (recorded when line 162 runs).
LedgerIdle ==
    [pc |-> "idle", networkId |-> 0, address |-> "", probes |-> 0,
     probe |-> "none", failedAt |-> "none", urlOk |-> TRUE]

\* A lookup that always reads the entry of network 5777.
NetworkData_FixedNetwork(table, networkId) ==
    table.entries[5777]

\* MediChain.networks[networkId] (line 166).
NetworkData(table, networkId) ==
    IF networkId \in DOMAIN table.entries THEN table.entries[networkId] ELSE NoEntry

\* A condition that forgets the sentinel address.
ShouldLoadReal_NoSentinelCheck(networkData) ==
    networkData.present

\* The condition of line 167.
ShouldLoadReal(networkData) ==
    networkData.present /\ networkData.address # Sentinel

\* A fallback that builds the simulated contract and does not publish it.
LedgerFallback_NoPublish(l) ==
    [frame |-> [l EXCEPT !.pc = "done"], set |-> <<>>]

\* Lines 182-186: the fallback to the simulated contract.
LedgerFallback(l) ==
    [frame |-> [l EXCEPT !.pc = "done"], set |-> <<createMockContract("web3")>>]

\* Lines 188-193: the outer catch.  Line 189 reads error.message: when the
\* value caught is undefined or null the read throws inside the handler, and
\* getContractInstance rejects before anything is logged or published.  Line
\* 190 builds a second Web3 from the URL string: when that throws, the
\* failure has been logged and getContractInstance rejects without
\* publishing.  Otherwise the simulated contract is published.
LedgerCatch(l, stage, error, urlOk) ==
    IF ~HasMessage(error)
    THEN [frame |-> [l EXCEPT !.pc = "rejected"], set |-> <<>>]
    ELSE IF ~urlOk
    THEN [frame |-> [l EXCEPT !.pc = "rejected", !.failedAt = stage],
          set |-> <<>>]
    ELSE [frame |-> [l EXCEPT !.pc = "done", !.failedAt = stage],
          set |-> <<createMockContract("web3")>>]

\* Lines 177-186: the inner catch, which falls through to the fallback.
\* Line 178 reads error.message: when the probe rejected with undefined or
\* null the read throws a TypeError, which the outer catch receives.
ProbeFailed(l, error) ==
    IF HasMessage(error)
    THEN LedgerFallback([l EXCEPT !.probe = "failed", !.failedAt = "probe"])
    ELSE LedgerCatch([l EXCEPT !.probe = "failed"], "probeHandler", "Error",
                     l.urlOk)

\* Lines 161-163: from the call to the await of web3.eth.net.getId().
GetContractInstanceStart(l, web3) ==
    LET called == [l EXCEPT !.urlOk = web3.url]
    IN  IF ~web3.ok THEN LedgerCatch(called, "provider", web3.error, web3.url)
        ELSE [frame |-> [called EXCEPT !.pc = "getId"], set |-> <<>>]

\* Lines 163-173: from the settling of getId() to the await of the probe.
\* Reading an entry of a missing networks object throws a TypeError; ctor is
\* the outcome of new web3.eth.Contract(...).
AfterGetId(l, table, outcome, ctor) ==
    IF ~outcome.ok THEN LedgerCatch(l, "getId", outcome.error, l.urlOk)
    ELSE LET withId == [l EXCEPT !.networkId = outcome.id]
         IN  IF ~table.defined
             THEN LedgerCatch(withId, "lookup", "Error", l.urlOk)
             ELSE LET networkData == NetworkData(table, outcome.id)
                  IN  IF ShouldLoadReal(networkData)
                      THEN IF ctor # "none"
                           THEN LedgerCatch(withId, "contract", ctor, l.urlOk)
                           ELSE [frame |-> [withId EXCEPT
                                              !.pc = "probe",
                                              !.address = networkData.address,
                                              !.probes = @ + 1,
                                              !.probe = "pending"],
                                 set |-> <<>>]
                      ELSE LedgerFallback(withId)

\* Lines 173-179: the settling of mediChain.methods.name().call(): outcome
\* is "none" when it resolves, else the value it rejects with.
AfterProbe(l, outcome) ==
    IF outcome = "none"
    THEN [frame |-> [l EXCEPT !.pc = "done", !.probe = "ok"],
          set |-> <<RealContract(l.address)>>]
    ELSE ProbeFailed(l, outcome)

(***************************************************************************)
(* setupIPFS and initializeIPFS (App.js 119-137, 196-199).                 *)
(***************************************************************************)
Never == -1

StoreIdle ==
    [pc |-> "idle", result |-> mockIpfs, client |-> mockIpfs, start |-> 0,
     end |-> 0, creates |-> 0, versions |-> 0, respAt |-> Never,
     respOk |-> FALSE, respErr |-> "none", deadline |-> Never,
     timedOut |-> FALSE, failed |-> FALSE]

\* The version() request sent at time `at`: when the endpoint answers and
\* how (resp is "none" for an answer, else the value version() rejects
\* with), and when the client's timeout option (if any) aborts the request.
VersionRequest(s, options, delay, resp, at) ==
    [s EXCEPT !.pc = "version",
              !.client = RealStore(options),
              !.versions = @ + 1,
              !.respAt = IF delay = Never THEN Never ELSE at + delay,
              !.respOk = (resp = "none"),
              !.respErr = resp,
              !.deadline = IF options.timeout > 0 THEN at + options.timeout
                           ELSE Never]

\* Lines 131-136: the catch of setupIPFS.  Line 133 reads error.message
\* after the warning of line 132: when the value caught is undefined or null
\* the read throws inside the handler and setupIPFS rejects; otherwise it
\* returns mockIpfs.
SetupIPFSCatch(s, at, error) ==
    IF HasMessage(error)
    THEN [s EXCEPT !.pc = "returned", !.result = mockIpfs, !.end = at,
                   !.failed = TRUE]
    ELSE [s EXCEPT !.pc = "rejected", !.end = at, !.failed = TRUE]

\* Lines 120-128: from the call to the await of ipfs.version(); created is
\* the outcome of create(...).
SetupIPFSStart(s, created, delay, resp, at) ==
    LET started == [s EXCEPT !.start = at, !.creates = @ + 1]
    IN  IF created # "none" THEN SetupIPFSCatch(started, at, created)
        ELSE VersionRequest(started, IpfsOptions, delay, resp, at)

\* Endpoint behaviours: the time the endpoint takes to answer version().
Delays == { 1000, 3000, 4000, Never }

\* Endpoint behaviours: the endpoint answers version() after a delay or
\* never, or fails it after a delay with an Error, or (followed for the
\* shortest delay) with undefined or null.
Endpoints ==
    { [delay |-> d, resp |-> "none"] : d \in Delays }
    \cup { [delay |-> d, resp |-> "Error"] : d \in Delays \ {Never} }
    \cup { [delay |-> 1000, resp |-> e] : e \in {"undefined", "null"} }

\* Content identifier a real store returns from add().
RealAddPath(content) == <<81, 109, 82>>

Last(seq) == seq[Len(seq)]

AppInit ==
    /\ mounted = FALSE
    /\ mediChain = NullHandle
    /\ ipfs = mockIpfs
    /\ ledger = LedgerIdle
    /\ store = StoreIdle
    /\ mediChainWrites = <<>>
    /\ ipfsWrites = <<>>
    /\ uploads = <<>>

\* The ledger resolver moves to the frame r.frame after calling setMediChain
\* with each element of r.set.
LedgerStep(r) ==
    /\ ledger' = r.frame
    /\ mediChainWrites' = mediChainWrites \o r.set
    /\ mediChain' = IF r.set = <<>> THEN mediChain ELSE Last(r.set)

\* A mount effect that awaits getContractInstance() before it would start
\* initializeIPFS().
UseEffect_AwaitsLedger(web3, created, delay, resp) ==
    /\ ~mounted
    /\ mounted' = TRUE
    /\ LedgerStep(GetContractInstanceStart(ledger, web3))
    /\ UNCHANGED <<now, networks, ipfs, store, ipfsWrites, uploads, storeVars,
                   writeVars, sessionVars, callVars>>

\* The mount effect (lines 201-204): getContractInstance() and then
\* initializeIPFS() each run up to their first suspension point.
UseEffect(web3, created, delay, resp) ==
    /\ ~mounted
    /\ mounted' = TRUE
    /\ LedgerStep(GetContractInstanceStart(ledger, web3))
    /\ store' = SetupIPFSStart(store, created, delay, resp, now)
    /\ UNCHANGED <<now, networks, ipfs, ipfsWrites, uploads, storeVars, writeVars,
                   sessionVars, callVars>>

\* web3.eth.net.getId() settles.
GetIdSettles(outcome, ctor) ==
    /\ ledger.pc = "getId"
    /\ LedgerStep(AfterGetId(ledger, networks, outcome, ctor))
    /\ UNCHANGED <<now, mounted, networks, ipfs, store, ipfsWrites, uploads,
                   storeVars, writeVars, sessionVars, callVars>>

\* mediChain.methods.name().call() settles.
ProbeSettles(outcome) ==
    /\ ledger.pc = "probe"
    /\ LedgerStep(AfterProbe(ledger, outcome))
    /\ UNCHANGED <<now, mounted, networks, ipfs, store, ipfsWrites, uploads,
                   storeVars, writeVars, sessionVars, callVars>>

\* ipfs.version() resolves: setupIPFS returns the client (lines 128-130).
VersionResolves ==
    /\ store.pc = "version" /\ store.respAt = now /\ store.respOk
    /\ store' = [store EXCEPT !.pc = "returned", !.result = store.client,
                              !.end = now]
    /\ UNCHANGED <<now, mounted, networks, mediChain, ipfs, ledger,
                   mediChainWrites, ipfsWrites, uploads, storeVars, writeVars,
                   sessionVars, callVars>>

\* ipfs.version() rejects with the value the endpoint's failure produced.
VersionRejects ==
    /\ store.pc = "version" /\ store.respAt = now /\ ~store.respOk
    /\ store' = SetupIPFSCatch(store, now, store.respErr)
    /\ UNCHANGED <<now, mounted, networks, mediChain, ipfs, ledger,
                   mediChainWrites, ipfsWrites, uploads, storeVars, writeVars,
                   sessionVars, callVars>>

\* The client's timeout aborts the request: ipfs.version() rejects with a
\* timeout error object.
VersionTimesOut ==
    /\ store.pc = "version" /\ store.deadline = now
    /\ store' = SetupIPFSCatch([store EXCEPT !.timedOut = TRUE], now, "Error")
    /\ UNCHANGED <<now, mounted, networks, mediChain, ipfs, ledger,
                   mediChainWrites, ipfsWrites, uploads, storeVars, writeVars,
                   sessionVars, callVars>>

\* initializeIPFS resumes after its await (lines 197-198): setIpfs(result).
InitializeIPFSResumes ==
    /\ store.pc = "returned"
    /\ store' = [store EXCEPT !.pc = "done"]
    /\ ipfs' = store.result
    /\ ipfsWrites' = Append(ipfsWrites, store.result)
    /\ UNCHANGED <<now, mounted, networks, mediChain, ledger, mediChainWrites,
                   uploads, storeVars, writeVars, sessionVars, callVars>>

\* The random draws followed through an upload: 0 and 0.az.
UploadDraws == { <<>>, <<97, 122>> }

\* A routed view awaits ipfs.add(content) on the handle it was given.
Upload(content, r) ==
    /\ Len(uploads) < MaxUploads
    /\ uploads' = Append(uploads,
          [by |-> ipfs.kind,
           path |-> IF ipfs.kind = "mock" THEN MockIpfsAdd(content, r).path
                    ELSE RealAddPath(content),
           resolved |-> store.pc = "done",
           timedOut |-> store.timedOut])
    /\ UNCHANGED <<now, mounted, networks, mediChain, ipfs, ledger, store,
                   mediChainWrites, ipfsWrites, storeVars, writeVars,
                   sessionVars, callVars>>

\* Times of the pending events: those of the version() request and the
\* timers of the awaited sends.
PendingTimes ==
    (IF store.pc = "version"
     THEN {t \in {store.respAt, store.deadline} : t # Never}
     ELSE {})
    \cup {pendingSends[k].due : k \in 1..Len(pendingSends)}

\* The next multiple of TickMs.
NextTick == ((now \div TickMs) + 1) * TickMs

\* Time passes up to the next multiple of TickMs, never beyond a pending
\* event and not while a resumed continuation is waiting to run.
Tick ==
    /\ now < MaxTime
    /\ store.pc # "returned"
    /\ \A t \in PendingTimes : t > now
    /\ now' = IF \E t \in PendingTimes : t < NextTick
              THEN CHOOSE t \in PendingTimes : \A u \in PendingTimes : t <= u
              ELSE NextTick
    /\ UNCHANGED <<appVars, storeVars, writeVars, sessionVars, callVars>>

\* No account, no token (lines 140-141); connectWallet has not been called
\* and nothing has been rendered or called yet.
WalletIdle == [calls |-> 0, pending |-> 0, listeners |-> 0, alerts |-> 0,
               logged |-> 0]

SessionInit ==
    /\ account = ""
    /\ token = ""
    /\ wallet = WalletIdle
    /\ views = <<>>

CallInit ==
    /\ readLog = {}
    /\ sendLog = <<>>
    /\ pendingSends = <<>>

Init ==
    /\ networks \in Tables
    /\ AppInit /\ StoreInit /\ WriteInit /\ SessionInit /\ CallInit

Next ==
    \/ \E web3 \in Web3Outcomes, created \in Outcomes, e \in Endpoints :
          UseEffect(web3, created, e.delay, e.resp)
    \/ \E outcome \in GetIdOutcomes, ctor \in Outcomes :
          GetIdSettles(outcome, ctor)
    \/ \E outcome \in Outcomes : ProbeSettles(outcome)
    \/ VersionResolves
    \/ VersionRejects
    \/ VersionTimesOut
    \/ InitializeIPFSResumes
    \/ \E content \in Contents, r \in UploadDraws : Upload(content, r)
    \/ Tick

Spec == Init /\ [][Next]_vars

\* The simulated backends are exercised on their own, before App mounts;
\* the deployment table plays no part and is the one without entries.
BackendInit ==
    /\ networks = [defined |-> TRUE, entries |-> [i \in TableIds |-> NoEntry]]
    /\ AppInit /\ StoreInit /\ WriteInit /\ SessionInit /\ CallInit

\* The simulated store alone.
SpecStore == BackendInit /\ [][StoreNext]_vars

\* One simulated write operation.
SpecWrites == BackendInit /\ [][WriteNext]_vars

(***************************************************************************)
(* Properties of the ledger resolver.                                      *)
(***************************************************************************)
\* The entry the deployment table records for a network identity.
EntryOf(id) ==
    IF networks.defined /\ id \in TableIds THEN networks.entries[id] ELSE NoEntry

\* getId() has returned a network identity.
NetworkKnown == ledger.networkId # 0

SimulatedContract == [kind |-> "mock", address |-> "0xMockContractAddress"]

\* C1: once the provider has returned a network identity that has no entry
\* in the deployment table, or whose entry holds the sentinel address, the
\* resolver has published the simulated contract (and nothing else) and has
\* issued no liveness probe.  (An artifact without a networks object has no
\* table to look into: that lookup fails, which is a case of C4.)
C1_UndeployedYieldsSimulated ==
    (NetworkKnown /\ networks.defined
                  /\ (~EntryOf(ledger.networkId).present
                        \/ EntryOf(ledger.networkId).address = Sentinel))
    => /\ ledger.pc = "done"
       /\ mediChain = SimulatedContract
       /\ mediChainWrites = <<SimulatedContract>>
       /\ ledger.probes = 0
       /\ ledger.probe = "none"

\* The provider returned a network whose entry holds the sentinel address.
C1_Witness ==
    /\ NetworkKnown
    /\ EntryOf(ledger.networkId).present
    /\ EntryOf(ledger.networkId).address = Sentinel
    /\ ledger.pc = "done"

\* C2: when the liveness probe has succeeded, the resolver has published the
\* real contract bound to the address the table records for the network the
\* provider returned, a non-sentinel address, and has published nothing else.
C2_LiveYieldsRealAtRecordedAddress ==
    /\ ledger.probe = "ok"
       => /\ ledger.pc = "done"
          /\ EntryOf(ledger.networkId).present
          /\ EntryOf(ledger.networkId).address # Sentinel
          /\ mediChain = [kind |-> "real",
                          address |-> EntryOf(ledger.networkId).address]
          /\ mediChainWrites = <<mediChain>>
    /\ \A i \in 1..Len(mediChainWrites) :
          mediChainWrites[i].kind = "real"
          => /\ ledger.probe = "ok"
             /\ mediChainWrites[i].address = EntryOf(ledger.networkId).address

\* The probe succeeded on network 1 while the table records a different
\* address for network 5777.
C2_Witness ==
    /\ ledger.probe = "ok"
    /\ ledger.networkId = 1
    /\ EntryOf(5777).present
    /\ EntryOf(5777).address # EntryOf(1).address
    /\ mediChain.kind = "real"

\* C3: when the liveness probe has failed, whatever it rejected with, the
\* resolver has completed normally and has published the simulated contract
\* and never the real one.
C3_DeadYieldsSimulated ==
    ledger.probe = "failed"
    => /\ ledger.pc = "done"
       /\ mediChain = SimulatedContract
       /\ mediChainWrites = <<SimulatedContract>>

\* A probe rejected with undefined or null, the inner catch threw, and the
\* outer catch threw in turn at its new Web3: nothing was published.
C3_ProbeHandlerThrew ==
    /\ ledger.probe = "failed" /\ ledger.failedAt = "probeHandler"
    /\ ledger.pc = "rejected" /\ mediChain = NullHandle

\* What remains true of a failed probe: the real contract built for it is
\* never published, and the simulated one is whenever the resolver completes.
DeadNeverYieldsReal ==
    ledger.probe = "failed"
    => /\ mediChain # RealContract(ledger.address)
       /\ ledger.pc = "done" => mediChainWrites = <<SimulatedContract>>
       /\ ledger.pc = "rejected" => mediChainWrites = <<>>

\* C4: the resolver never ends in an error state, and after a failure at any
\* stage (provider, network identity, table lookup, contract construction,
\* probe) it has completed with the simulated contract published.
C4_ResolutionNeverRaises ==
    /\ ledger.pc \in {"idle", "getId", "probe", "done"}
    /\ ledger.failedAt # "none"
       => /\ ledger.pc = "done"
          /\ mediChain = SimulatedContract
          /\ mediChainWrites = <<SimulatedContract>>

\* getContractInstance has rejected: nothing was published.
LedgerRejected ==
    /\ ledger.pc = "rejected"
    /\ mediChain = NullHandle /\ mediChainWrites = <<>>

(***************************************************************************)
(* Properties of the content-store resolver.                               *)
(***************************************************************************)
ConfiguredStore ==
    [kind |-> "real", url |-> "http://127.0.0.1:5001/api/v0", timeout |-> 3000]

SimulatedStore == [kind |-> "mock", url |-> "", timeout |-> 0]

\* C5: setupIPFS creates one client and sends at most one version() query,
\* never a second; it never rejects; it returns the client of the configured
\* endpoint exactly when that query succeeded and the simulated store after
\* any failure.
C5_OneAttemptThenFallback ==
    /\ store.creates <= 1 /\ store.versions <= 1
    /\ mounted => store.creates = 1
    /\ store.pc \in {"idle", "version", "returned", "done"}
    /\ store.pc \in {"returned", "done"}
       => /\ store.result \in {ConfiguredStore, SimulatedStore}
          /\ store.result = ConfiguredStore
             <=> (store.versions = 1 /\ store.respOk /\ ~store.timedOut
                    /\ store.end = store.respAt)
          /\ store.result = SimulatedStore <=> store.failed
    /\ store.pc = "done" => ipfs = store.result

\* setupIPFS has rejected: setIpfs was never called.
StoreRejected ==
    /\ store.pc = "rejected"
    /\ ipfs = mockIpfs /\ ipfsWrites = <<>>

\* C6: setupIPFS is never pending more than 3000 ms after it started and
\* completes within 3000 ms of its start; after a timeout it returns the
\* simulated store, and an add() made through the published handle is then
\* served by the simulated store with an identifier that begins with 'Qm'.
C6_ResolvesWithinTimeout ==
    /\ store.pc = "version" => now - store.start <= 3000
    /\ store.pc \in {"returned", "done", "rejected"}
       => store.end - store.start <= 3000
    /\ store.timedOut => store.pc \in {"returned", "done"}
    /\ store.timedOut => store.result = SimulatedStore
    /\ \A i \in 1..Len(uploads) :
          (uploads[i].resolved /\ uploads[i].timedOut)
          => /\ uploads[i].by = "mock"
             /\ Len(uploads[i].path) >= 2
             /\ SubSeq(uploads[i].path, 1, 2) = <<81, 109>>

\* The endpoint never answered, setupIPFS returned at the timeout, and a
\* later add() went through the published handle.
C6_Witness ==
    /\ store.respAt = Never
    /\ store.timedOut
    /\ store.end - store.start = 3000
    /\ \E i \in 1..Len(uploads) : uploads[i].resolved /\ uploads[i].timedOut

(***************************************************************************)
(* Properties of the simulated ledger's write operations.                  *)
(***************************************************************************)
Calls(method) ==
    {i \in 1..Len(history) : history[i].kind = "call" /\ history[i].method = method}

\* Positions of history at which a Confirmation was delivered through then:
\* to the callback passed to then, or through the promise then returned.
ThenConfirmations ==
    {j \in 1..Len(history) :
        history[j].kind \in {"callback", "promise"} /\ history[j].method = "then"}

\* C7: every simulated write, whatever on/then/catch calls are made on the
\* object send() returned, resolves to a Confirmation with a non-empty
\* transaction identifier (each then/catch call gets its promise fulfilled
\* at once, each then callback is invoked by the time its timer is due), and
\* no callback subscribed to 'error' or passed to catch is ever invoked.
C7_SimulatedWritesSucceed ==
    /\ \A i \in 1..Len(history) :
          history[i].kind = "callback" =>
              /\ history[i].method # "catch"
              /\ ~(history[i].method = "on" /\ history[i].name = "error")
    /\ \A i \in 1..Len(history) :
          (history[i].kind \in {"callback", "promise"}
             /\ history[i].method \in {"then", "catch"}) => history[i].arg # ""
    /\ \A c \in Calls("then") \cup Calls("catch") :
          \E j \in 1..Len(history) :
              history[j].kind = "promise" /\ history[j].call = c
    /\ \A c \in Calls("then") :
          \/ \E t \in timers : t.call = c /\ t.due >= now
          \/ \E j \in 1..Len(history) :
                history[j].kind = "callback" /\ history[j].call = c

\* A write on which on('error'), catch and then were all called and the then
\* callback has received the Confirmation.
C7_Witness ==
    /\ \E i \in Calls("on") : history[i].name = "error"
    /\ Calls("catch") # {}
    /\ \E j \in 1..Len(history) :
          history[j].kind = "callback" /\ history[j].method = "then"

\* C8: whenever a Confirmation is delivered through then, every callback
\* subscribed to 'transactionHash' before that delivery has already been
\* invoked.
C8_HashPrecedesConfirmation ==
    \A j \in ThenConfirmations :
        \A i \in 1..(j - 1) :
            (history[i].kind = "call" /\ history[i].method = "on"
               /\ history[i].name = "transactionHash")
            => \E k \in (i + 1)..(j - 1) :
                   history[k].kind = "callback" /\ history[k].call = i

\* The invocations of the callback passed in call number c, and the timers
\* still pending for it.
Callbacks(c) ==
    {j \in 1..Len(history) : history[j].kind = "callback" /\ history[j].call = c}

PendingFor(c) == {t \in timers : t.call = c}

\* The on() calls that subscribed to 'transactionHash'.
HashSubscriptions ==
    {c \in Calls("on") : history[c].name = "transactionHash"}

\* C19: each on('transactionHash', cb) call gets cb invoked exactly once (it
\* is pending until its timer is due and has run once from then on), with
\* the transaction identifier of the operation's Confirmation; an on() for
\* any other event never gets its callback invoked; without a
\* 'transactionHash' subscription no on() callback is invoked at all.
C19_OneNotificationPerSubscription ==
    /\ \A c \in HashSubscriptions :
          /\ Cardinality(Callbacks(c)) + Cardinality(PendingFor(c)) = 1
          /\ \A t \in PendingFor(c) : t.due >= now
          /\ \A j \in Callbacks(c) :
                /\ history[j].arg = MockWriteResult(promiEvent.op).transactionHash
                /\ \A k \in ThenConfirmations : history[k].arg = history[j].arg
    /\ \A c \in Calls("on") \ HashSubscriptions :
          Callbacks(c) = {} /\ PendingFor(c) = {}
    /\ HashSubscriptions = {} =>
          \A j \in 1..Len(history) :
              history[j].kind = "callback" => history[j].method # "on"

\* Two subscriptions to 'transactionHash' and one to 'receipt': the first
\* two have been notified, the third has not and has nothing pending.
C19_Witness ==
    /\ Cardinality(HashSubscriptions) = 2
    /\ \A c \in HashSubscriptions : Cardinality(Callbacks(c)) = 1
    /\ \E c \in Calls("on") : history[c].name = "receipt"
    /\ timers = {}

(***************************************************************************)
(* Properties of the simulated content store.                              *)
(***************************************************************************)
\* TextDecoder.decode of UTF-8 bytes that encode code units below 0x800; a
\* truncated two-byte sequence decodes to U+FFFD.
RECURSIVE Utf8Decode(_)
Utf8Decode(b) ==
    IF b = <<>> THEN <<>>
    ELSE IF Head(b) < 128 THEN <<Head(b)>> \o Utf8Decode(Tail(b))
    ELSE IF Len(b) >= 2
         THEN <<(Head(b) - 192) * 64 + (b[2] - 128)>> \o Utf8Decode(Tail(Tail(b)))
         ELSE <<65533>>

\* C9: no two add() calls return the same identifier.
C9_DistinctIdentifiers ==
    \A i, j \in 1..Len(addLog) : i # j => addLog[i].path # addLog[j].path

\* C10: cat is a pure function of the identifier: the same identifier always
\* gets the same content, whether or not add() ever returned it and whatever
\* calls came in between; the content is a byte string that decodes to the
\* placeholder text followed by the identifier.
C10_CatPureFunctionOfId ==
    /\ \A e1, e2 \in catLog : e1.hash = e2.hash => e1.content = e2.content
    /\ \A e \in catLog :
          /\ \A k \in 1..Len(e.content) : e.content[k] \in 0..255
          /\ Utf8Decode(e.content) = MockContentPrefix \o e.hash

\* The same identifier was retrieved before add() had returned it and again
\* afterwards, and a non-ASCII identifier that add() never returned was
\* retrieved too.
C10_Witness ==
    /\ \E e1, e2 \in catLog : e1.hash = e2.hash /\ ~e1.stored /\ e2.stored
    /\ \E e \in catLog : ~e.stored /\ \E k \in 1..Len(e.hash) : e.hash[k] >= 128

(***************************************************************************)
(* Properties of the two resolvers together.                               *)
(***************************************************************************)

\* A step of getContractInstance / of initializeIPFS after the mount effect.
LedgerMoves == mounted /\ (ledger' # ledger \/ mediChain' # mediChain)
StoreMoves == mounted /\ (store' # store \/ ipfs' # ipfs)

\* C11: the mount effect starts both resolvers, neither waits for the
\* other: a suspended resolver can resume whatever the state of the other
\* one, and a step of one resolver leaves the activation and the handle of
\* the other one untouched.
C11_ResolversDoNotBlock ==
    /\ [](mounted => ledger.pc # "idle" /\ store.pc # "idle")
    /\ [](ledger.pc = "getId" =>
            ENABLED GetIdSettles([ok |-> FALSE, id |-> 0, error |-> "Error"],
                                 "none"))
    /\ [](ledger.pc = "probe" => ENABLED ProbeSettles("none"))
    /\ [](store.pc = "returned" => ENABLED InitializeIPFSResumes)
    /\ [][/\ LedgerMoves => store' = store /\ ipfs' = ipfs
          /\ StoreMoves => ledger' = ledger /\ mediChain' = mediChain]_vars

\* The content store is published while the ledger probe is still pending.
C11_Witness ==
    /\ store.pc = "done" /\ ipfs.kind = "real"
    /\ ledger.pc = "probe" /\ mediChain = NullHandle

\* The other order: the ledger handle is published while ipfs.version() is
\* still pending.
C11_LedgerFirst ==
    /\ ledger.pc = "done" /\ mediChain.kind = "real"
    /\ store.pc = "version" /\ ipfs = mockIpfs

\* C14: each resolver writes its handle exactly once per start: none
\* before it finishes, one when it has finished, whatever path it took
\* (so never a second one); nothing is retried.
C14_EachHandleWrittenOnce ==
    /\ Len(mediChainWrites) =
          IF ledger.pc \in {"done", "rejected"} THEN 1 ELSE 0
    /\ Len(ipfsWrites) = IF store.pc \in {"done", "rejected"} THEN 1 ELSE 0
    /\ mediChainWrites # <<>> => mediChain = mediChainWrites[1]
    /\ ipfsWrites # <<>> => ipfs = ipfsWrites[1]
    /\ ledger.probes <= 1 /\ store.creates <= 1 /\ store.versions <= 1

\* What remains true: no handle is written before its resolver finishes or
\* more than once, and a resolver that completes normally has written one.
AtMostOneWrite ==
    /\ Len(mediChainWrites) = IF ledger.pc = "done" THEN 1 ELSE 0
    /\ Len(ipfsWrites) = IF store.pc = "done" THEN 1 ELSE 0

\* C20: the content-store handle is never null: it is the simulated store
\* until initializeIPFS publishes, and a store after that; the ledger
\* handle is null exactly while getContractInstance has not published, that
\* is until it has completed normally, and is a contract from then on.
C20_StoreAlwaysUsableLedgerNullUntilPublished ==
    /\ ipfs.kind \in {"mock", "real"}
    /\ ipfsWrites = <<>> => ipfs = mockIpfs
    /\ mediChain = NullHandle <=> mediChainWrites = <<>>
    /\ mediChain = NullHandle <=> ledger.pc # "done"
    /\ mediChain # NullHandle => mediChain.kind \in {"mock", "real"}

\* The ledger handle is still null after the real store has been published.
C20_Witness ==
    /\ mounted /\ mediChain = NullHandle /\ ledger.pc = "getId"
    /\ ipfsWrites # <<>> /\ ipfs.kind = "real"

(***************************************************************************)
(* The routed views (lines 206-217).  App returns the Routes on every      *)
(* render, the first one before the mount effect has run, and passes its   *)
(* current state to the element of each route.                             *)
(***************************************************************************)

\* The routes of lines 210-213.
RoutePaths == {"/", "/login", "/dashboard", "/register"}

\* The handles in the props of a route's element: Home gets none (line
\* 210), Login the ledger handle (line 211), Dashboard and Register both
\* (lines 212-213).
RouteElement(path, m, i) ==
    [path |-> path,
     mediChain |-> IF path = "/" THEN "none" ELSE m.kind,
     ipfs |-> IF path \in {"/dashboard", "/register"} THEN i.kind
              ELSE "none"]

\* The element of a route is rendered with the current handles; the log
\* also keeps whether each resolver had finished by then.
View(path) ==
    /\ Len(views) < MaxViews
    /\ views' = Append(views,
          [element |-> RouteElement(path, mediChain, ipfs),
           ledgerDone |-> ledger.pc = "done",
           storeDone |-> store.pc = "done"])
    /\ UNCHANGED <<now, storeVars, writeVars, appVars, account, token, wallet,
                   callVars>>

ViewsNext ==
    \/ \E web3 \in Web3Outcomes, created \in Outcomes, e \in Endpoints :
          UseEffect(web3, created, e.delay, e.resp)
    \/ \E outcome \in GetIdOutcomes, ctor \in Outcomes :
          GetIdSettles(outcome, ctor)
    \/ \E outcome \in Outcomes : ProbeSettles(outcome)
    \/ VersionResolves
    \/ VersionRejects
    \/ VersionTimesOut
    \/ InitializeIPFSResumes
    \/ \E path \in RoutePaths : View(path)
    \/ Tick

\* A build whose artifact records one deployment, on network 5777.
DeployedInit ==
    /\ networks = [defined |-> TRUE,
                   entries |-> [i \in TableIds |->
                                 IF i = 5777 THEN Entry("0xA11CE")
                                 ELSE NoEntry]]
    /\ AppInit /\ StoreInit /\ WriteInit /\ SessionInit /\ CallInit

\* App with its routed views.
SpecViews == DeployedInit /\ [][ViewsNext]_vars

(***************************************************************************)
(* Properties of what the routed views are given.                          *)
(***************************************************************************)

\* C12: a routed view is given a handle only when both resolvers have
\* finished, and the ledger handle it is given is never null.
C12_HandlesOnlyWhenReady ==
    \A k \in 1..Len(views) :
        views[k].element.path # "/" =>
            /\ views[k].ledgerDone /\ views[k].storeDone
            /\ views[k].element.mediChain # "null"

\* The views given a content-store handle / a non-null ledger handle.
StoreViews == {k \in 1..Len(views) : views[k].element.ipfs # "none"}
LedgerViews ==
    {k \in 1..Len(views) : views[k].element.mediChain \in {"mock", "real"}}

\* C15 as stated: all views of a session are served by one variant of the
\* content store, and by one variant of the ledger contract.
C15_OneVariantPerSession ==
    /\ \A j, k \in StoreViews : views[j].element.ipfs = views[k].element.ipfs
    /\ \A j, k \in LedgerViews :
          views[j].element.mediChain = views[k].element.mediChain

\* What remains true: the content-store handle is the simulated store until
\* initializeIPFS publishes its result and is the published variant in
\* every view after that; the ledger handle, once set, is one variant.
OneVariantOncePublished ==
    /\ \A k \in StoreViews :
          views[k].element.ipfs = IF views[k].storeDone
                                  THEN ipfsWrites[1].kind ELSE "mock"
    /\ \A j, k \in StoreViews :
          views[j].storeDone /\ views[k].storeDone =>
              views[j].element.ipfs = views[k].element.ipfs
    /\ \A j, k \in LedgerViews :
          views[j].element.mediChain = views[k].element.mediChain

\* A view rendered before initializeIPFS published was served by the
\* simulated store, a later view of the same session by the real one.
SimulatedThenReal ==
    \E j, k \in StoreViews :
        /\ j < k
        /\ ~views[j].storeDone /\ views[j].element.ipfs = "mock"
        /\ views[k].storeDone /\ views[k].element.ipfs = "real"

(***************************************************************************)
(* Start-up under the scheduling the runtime guarantees.  React runs the   *)
(* mount effect, the clock advances, the client's timeout and the          *)
(* response it was going to get arrive on time, and a continuation whose   *)
(* promise has settled is run.  Nothing in App.js bounds the time the      *)
(* provider takes to settle getId() or name().call(): the two settlements  *)
(* are steps of the provider and carry no fairness.                        *)
(***************************************************************************)

Mount ==
    \E web3 \in Web3Outcomes, created \in Outcomes, e \in Endpoints :
        UseEffect(web3, created, e.delay, e.resp)

ProviderSettles ==
    \/ \E outcome \in GetIdOutcomes, ctor \in Outcomes :
          GetIdSettles(outcome, ctor)
    \/ \E outcome \in Outcomes : ProbeSettles(outcome)

\* The effect runs right after the first render: time is counted from it.
TickAfterMount == mounted /\ Tick

StartupNext ==
    \/ Mount
    \/ ProviderSettles
    \/ VersionResolves
    \/ VersionRejects
    \/ VersionTimesOut
    \/ InitializeIPFSResumes
    \/ TickAfterMount

SpecLive ==
    /\ DeployedInit
    /\ [][StartupNext]_vars
    /\ WF_vars(Mount)
    /\ WF_vars(VersionResolves)
    /\ WF_vars(VersionRejects)
    /\ WF_vars(VersionTimesOut)
    /\ WF_vars(InitializeIPFSResumes)
    /\ WF_vars(TickAfterMount)

\* C13: every start-up eventually has the ledger handle set and the
\* content-store handle resolved.
C13_EventuallyUsable == <>(mediChain # NullHandle /\ store.pc = "done")

\* The content-store half: initializeIPFS always finishes, by publishing
\* or by rejecting.
StoreEventuallySettles == <>(store.pc \in {"done", "rejected"})

(***************************************************************************)
(* The read operations of the simulated contract (lines 56-89) and         *)
(* repeated calls of its operations.                                       *)
(***************************************************************************)

\* The list queries of lines 81-89.
ListQueries ==
    { "getPatientDoctorList", "getDoctorPatientList", "getPatientTransactions",
      "getDoctorTransactions", "getInsurerPolicyList", "getInsurerClaims",
      "getAllPolicies", "getAllDoctorsAddress", "getAllInsurersAddress" }

\* The per-role info queries of lines 57-80.
InfoQueries == { "patientInfo", "doctorInfo", "insurerInfo" }

ReadOps == {"login"} \cup InfoQueries \cup ListQueries

\* Arguments of methods.<op>(...args).call(): no argument or an address.
CallArgs == { <<>>, <<"0xA11CE">> }

\* JavaScript values a call() resolves to.
JsString(v) == [type |-> "string", value |-> v]
JsArray(items) == [type |-> "array", value |-> items]
JsObject(fields) == [type |-> "object", value |-> fields]

\* Info queries that know no account but the one of the samples.
MockRead_UnknownAccount(op, args, sent) ==
    CASE op = "login" -> JsString(IF args = <<>> THEN "0" ELSE "1")
      [] op = "patientInfo" ->
            JsObject([name |-> "Test Patient", email |-> "patient@test.com",
                      age |-> "30", record |-> "QmMockHash123",
                      exists |-> args = <<"0xA11CE">>,
                      policyActive |-> FALSE])
      [] op = "doctorInfo" ->
            JsObject([name |-> "Test Doctor", email |-> "doctor@test.com",
                      exists |-> args = <<"0xA11CE">>])
      [] op = "insurerInfo" ->
            JsObject([name |-> "Test Insurer", email |-> "insurer@test.com",
                      exists |-> args = <<"0xA11CE">>])
      [] op \in ListQueries -> JsArray(<<>>)

\* Reads that reflect the writes made so far.
MockRead_Stateful(op, args, sent) ==
    CASE op = "login" -> JsString("1")
      [] op = "patientInfo" ->
            JsObject([name |-> "Test Patient", email |-> "patient@test.com",
                      age |-> "30", record |-> "QmMockHash123",
                      exists |-> TRUE,
                      policyActive |->
                          \E k \in 1..Len(sent) : sent[k].op = "buyPolicy"])
      [] op = "doctorInfo" ->
            JsObject([name |-> "Test Doctor", email |-> "doctor@test.com",
                      exists |-> TRUE])
      [] op = "insurerInfo" ->
            JsObject([name |-> "Test Insurer", email |-> "insurer@test.com",
                      exists |-> TRUE])
      [] op \in ListQueries ->
            JsArray(IF \E k \in 1..Len(sent) : sent[k].op = "permitAccess"
                    THEN <<"0xD0C">> ELSE <<>>)

\* What methods.<op>(...args).call() resolves to (lines 56-89), after the
\* writes sent; the closures read neither args nor anything a write left.
MockRead(op, args, sent) ==
    CASE op = "login" -> JsString("1")
      [] op = "patientInfo" ->
            JsObject([name |-> "Test Patient", email |-> "patient@test.com",
                      age |-> "30", record |-> "QmMockHash123",
                      exists |-> TRUE, policyActive |-> FALSE])
      [] op = "doctorInfo" ->
            JsObject([name |-> "Test Doctor", email |-> "doctor@test.com",
                      exists |-> TRUE])
      [] op = "insurerInfo" ->
            JsObject([name |-> "Test Insurer", email |-> "insurer@test.com",
                      exists |-> TRUE])
      [] op \in ListQueries -> JsArray(<<>>)

\* The writes sent so far, confirmed or not, in the order of the calls.
Sent ==
    [k \in 1..Len(sendLog) |-> [op |-> sendLog[k].op]]
    \o [k \in 1..Len(pendingSends) |-> [op |-> pendingSends[k].op]]

\* await methods.<op>(...args).call(): the async closure resolves without a
\* timer.  The log keeps the arguments, the value and whether a write had
\* been sent before.
Read(op, args) ==
    LET entry == [op |-> op, args |-> args,
                  result |-> MockRead(op, args, Sent),
                  afterWrite |-> Sent # <<>>]
    IN  /\ Cardinality(readLog \cup {entry}) <= MaxReads
        /\ readLog' = readLog \cup {entry}
        /\ UNCHANGED <<now, storeVars, writeVars, appVars, sessionVars,
                       sendLog, pendingSends>>

\* await methods.<op>(...args).send(): send() returns the PromiEvent at
\* once; awaiting it calls its then(), which sets a timer of ConfirmDelay
\* (line 41).  The caller stays suspended until the timer fires.
Invoke(op, args) ==
    /\ Len(sendLog) + Len(pendingSends) < MaxSends
    /\ pendingSends' = Append(pendingSends,
          [op |-> op,
           due |-> now + ConfirmDelay,
           result |-> createMockPromiEvent(op, MockWriteResult(op)).result])
    /\ UNCHANGED <<now, storeVars, writeVars, appVars, sessionVars, readLog,
                   sendLog>>

\* The timer of the oldest awaited send fires (timers of equal delay fire
\* in the order they were set): the caller resumes with the Confirmation.
InvokeResumes ==
    /\ pendingSends # <<>>
    /\ Head(pendingSends).due = now
    /\ sendLog' = Append(sendLog,
          [op |-> Head(pendingSends).op,
           transactionHash |-> Head(pendingSends).result.transactionHash,
           waited |-> now - (Head(pendingSends).due - ConfirmDelay)])
    /\ pendingSends' = Tail(pendingSends)
    /\ UNCHANGED <<now, storeVars, writeVars, appVars, sessionVars, readLog>>

\* One read operation is followed: calls of it, before, between and after
\* the writes.
FollowedRead(op, args) ==
    /\ \A e \in readLog : e.op = op
    /\ Read(op, args)

\* Time passes while a send is awaited.
TickWhileAwaiting == pendingSends # <<>> /\ Tick

LedgerNext ==
    \/ \E op \in ReadOps, args \in CallArgs : FollowedRead(op, args)
    \/ \E op \in WriteOps, args \in WriteArgs : Invoke(op, args)
    \/ InvokeResumes
    \/ TickWhileAwaiting

\* The simulated contract alone.
SpecLedger == BackendInit /\ [][LedgerNext]_vars

\* The reads of the simulated contract alone.
ReadsNext ==
    \E op \in ReadOps, args \in CallArgs : Read(op, args)

SpecReads == BackendInit /\ [][ReadsNext]_vars

(***************************************************************************)
(* Properties of the simulated contract's reads.                           *)
(***************************************************************************)

\* C17: every simulated read resolves to its fixed value, whatever the
\* arguments: login to '1', every list query to an empty array, every info
\* query to its sample record, whose exists flag is true.
C17_ReadsReturnFixedValues ==
    \A e \in readLog :
        /\ e.op = "login" => e.result = JsString("1")
        /\ e.op \in ListQueries => e.result = JsArray(<<>>)
        /\ e.op \in InfoQueries =>
              /\ e.result.type = "object"
              /\ e.result.value.exists = TRUE
              /\ e.result.value.name =
                    CASE e.op = "patientInfo" -> "Test Patient"
                      [] e.op = "doctorInfo" -> "Test Doctor"
                      [] e.op = "insurerInfo" -> "Test Insurer"
        /\ \A f \in readLog : f.op = e.op => f.result = e.result

\* An info query called with an address and a list query called without
\* argument have been answered.
C17_Witness ==
    /\ \E e \in readLog : e.op = "doctorInfo" /\ e.args = <<"0xA11CE">>
    /\ \E e \in readLog : e.op = "getAllPolicies" /\ e.args = <<>>

\* C18: the simulated contract keeps no state: a read made after any writes
\* resolves to the value it resolves to before every write (a list query
\* to the empty array, patientInfo with policyActive false), and two sends
\* of one operation resolve to the same transaction identifier.
C18_SimulatedLedgerStateless ==
    /\ \A e \in readLog :
          /\ e.result = MockRead(e.op, <<>>, <<>>)
          /\ \A f \in readLog : f.op = e.op => f.result = e.result
          /\ e.op \in ListQueries => e.result.value = <<>>
          /\ e.op = "patientInfo" => e.result.value.policyActive = FALSE
    /\ \A j, k \in 1..Len(sendLog) :
          sendLog[j].op = sendLog[k].op =>
              sendLog[j].transactionHash = sendLog[k].transactionHash

\* buyPolicy has been sent twice and each caller has resumed 200 ms after
\* its call; patientInfo was read before the first send and again after
\* one.
C18_Witness ==
    /\ Len(sendLog) = 2
    /\ \A k \in 1..2 :
          sendLog[k].op = "buyPolicy" /\ sendLog[k].waited = ConfirmDelay
    /\ \E e, f \in readLog :
          /\ e.op = "patientInfo" /\ ~e.afterWrite
          /\ f.op = "patientInfo" /\ f.afterWrite

(***************************************************************************)
(* The session state and connectWallet (lines 140-141, 145-158).           *)
(***************************************************************************)

\* What eth_requestAccounts may resolve to: the accounts the wallet exposes.
AccountLists == { <<"0xB0B", "0xA11CE">>, <<>> }

\* How an account request settles.
RequestOutcomes ==
    {[ok |-> TRUE, result |-> r] : r \in AccountLists}
        \cup {[ok |-> FALSE, result |-> <<>>]}

\* result[0]: undefined when the array is empty.
FirstAccount(result) == IF result = <<>> THEN "undefined" ELSE result[1]

\* connectWallet (lines 145-158) up to its return: with a wallet provider it
\* sends the account request and registers a chainChanged listener, without
\* one it alerts.
connectWallet(w, hasEthereum) ==
    IF hasEthereum
    THEN [w EXCEPT !.calls = @ + 1, !.pending = @ + 1, !.listeners = @ + 1]
    ELSE [w EXCEPT !.calls = @ + 1, !.alerts = @ + 1]

\* A settling that clears the account when the request is rejected.
AfterRequest_ClearsOnReject(acc, outcome) ==
    IF outcome.ok THEN FirstAccount(outcome.result) ELSE ""

\* Lines 149-153: .then(result => setAccount(result[0])) and
\* .catch(error => console.log(error)): the account afterwards.
AfterRequest(acc, outcome) ==
    IF outcome.ok THEN FirstAccount(outcome.result) ELSE acc

ConnectWallet(hasEthereum) ==
    /\ wallet.calls < MaxConnects
    /\ wallet' = connectWallet(wallet, hasEthereum)
    /\ UNCHANGED <<now, storeVars, writeVars, appVars, account, token, views,
                   callVars>>

\* A pending eth_requestAccounts request settles.
RequestSettles(outcome) ==
    /\ wallet.pending > 0
    /\ wallet' = [wallet EXCEPT !.pending = @ - 1,
                                !.logged = IF outcome.ok THEN @ ELSE @ + 1]
    /\ account' = AfterRequest(account, outcome)
    /\ UNCHANGED <<now, storeVars, writeVars, appVars, token, views, callVars>>

\* The wallet reports chainChanged to a registered listener (line 154):
\* window.location.reload() starts the page, and App, afresh.
ChainChanged ==
    /\ wallet.listeners > 0
    /\ mounted' = FALSE
    /\ mediChain' = NullHandle
    /\ ipfs' = mockIpfs
    /\ ledger' = LedgerIdle
    /\ store' = StoreIdle
    /\ mediChainWrites' = <<>>
    /\ ipfsWrites' = <<>>
    /\ uploads' = <<>>
    /\ account' = ""
    /\ token' = ""
    /\ wallet' = WalletIdle
    /\ views' = <<>>
    /\ readLog' = {}
    /\ sendLog' = <<>>
    /\ pendingSends' = <<>>
    /\ addLog' = <<>>
    /\ catLog' = {}
    /\ now' = 0
    /\ UNCHANGED <<networks, writeVars>>

\* Tokens and accounts the authentication flows store.
Tokens == { "", "token-1" }
AuthAccounts == { "" }

\* Login, Register and SiteNavbar are handed setToken and setAccount (lines
\* 208, 211, 213): logging in stores a token, logging out clears both.
SetToken(tok) ==
    /\ token # tok
    /\ token' = tok
    /\ UNCHANGED <<now, storeVars, writeVars, appVars, account, wallet, views,
                   callVars>>

SetAccount(acc) ==
    /\ account # acc
    /\ account' = acc
    /\ UNCHANGED <<now, storeVars, writeVars, appVars, token, wallet, views,
                   callVars>>

\* One call of a simulated backend operation, the first of the session;
\* add() is followed for the content 'hi' and the random draw 'az', the
\* reads for patientInfo and the writes for buyPolicy.
BackendCall ==
    /\ readLog = {} /\ sendLog = <<>> /\ pendingSends = <<>>
    /\ addLog = <<>> /\ catLog = {}
    /\ \/ \E args \in CallArgs : Read("patientInfo", args)
       \/ \E args \in WriteArgs : Invoke("buyPolicy", args)
       \/ Add(<<104, 105>>, <<97, 122>>)
       \/ \E hash \in ForeignHashes : Cat(hash)

\* The mount effect with an endpoint that answers after one second or
\* never.
SessionMount ==
    \E web3 \in {Web3Built, [ok |-> FALSE, error |-> "Error", url |-> TRUE]},
       created, resp \in {"none", "Error"}, delay \in {1000, Never} :
        UseEffect(web3, created, delay, resp)

SessionNext ==
    \/ SessionMount
    \/ ProviderSettles
    \/ VersionResolves
    \/ VersionRejects
    \/ VersionTimesOut
    \/ InitializeIPFSResumes
    \/ TickAfterMount
    \/ \E hasEthereum \in BOOLEAN : ConnectWallet(hasEthereum)
    \/ \E outcome \in RequestOutcomes : RequestSettles(outcome)
    \/ ChainChanged
    \/ \E tok \in Tokens : SetToken(tok)
    \/ \E acc \in AuthAccounts : SetAccount(acc)
    \/ BackendCall
    \/ InvokeResumes

\* App with its session state.
SpecSession == DeployedInit /\ [][SessionNext]_vars

(***************************************************************************)
(* Properties of the session state.                                        *)
(***************************************************************************)

\* Kinds of step, told by what they change.
Reloaded == wallet.listeners > 0 /\ wallet' = WalletIdle /\ ~mounted'
RequestResolved ==
    /\ wallet'.pending = wallet.pending - 1
    /\ wallet'.logged = wallet.logged
RequestRejected ==
    /\ wallet'.pending = wallet.pending - 1
    /\ wallet'.logged = wallet.logged + 1
ConnectWalletCalled == wallet'.calls = wallet.calls + 1
ResolverMoved ==
    <<mounted, mediChain, ipfs, ledger, store>>'
        # <<mounted, mediChain, ipfs, ledger, store>>
BackendCalled ==
    <<storeVars, writeVars, callVars>>' # <<storeVars, writeVars, callVars>>
SetterCalled ==
    UNCHANGED <<now, storeVars, writeVars, appVars, wallet, views, callVars>>

\* C16: account and token start empty; within a session the account is
\* changed only by an account request that resolved or by a setter call of
\* an authentication flow, and the token only by such a setter call; a
\* step of either resolver, a simulated backend operation, the call of
\* connectWallet itself (with or without a wallet provider) and a rejected
\* account request leave both unchanged.
C16_SessionChangedOnlyByWalletAndAuth ==
    /\ account = "" /\ token = ""
    /\ [][Reloaded \/
            /\ account' # account => RequestResolved \/ SetterCalled
            /\ token' # token => SetterCalled
            /\ (ResolverMoved \/ BackendCalled \/ ConnectWalletCalled
                   \/ RequestRejected)
                 => account' = account /\ token' = token]_vars

\* An account is connected and a token stored; both resolvers have
\* finished, a simulated write has been sent, and of two account requests
\* one was rejected.
C16_Witness ==
    /\ account = "0xB0B" /\ token = "token-1"
    /\ ledger.pc = "done" /\ store.pc = "done"
    /\ sendLog # <<>>
    /\ wallet.logged = 1 /\ wallet.pending = 0 /\ wallet.listeners = 2

====
